---- MODULE Spec2Model ----
(***************************************************************************)
(* Conway's Game of Life in the terminal: the Grid of src/src/conway.rs    *)
(* and the start-up and control loop of src/src/main.rs.                   *)
(*                                                                         *)
(* Four specifications share the variables below:                          *)
(*   Spec      the program: main's start-up, its loop and its exit;        *)
(*   SpecStep  update_grid / count_neighbors on every grid of the bounds;  *)
(*   SpecGrid  one Grid driven by any sequence of its public methods;      *)
(*   SpecFile  save_to_file / from_file on every text and grid of the      *)
(*             bounds.                                                     *)
(***************************************************************************)
EXTENDS Integers, Sequences, FiniteSets, TLC

(***************************************************************************)
(* Bounds                                                                  *)
(***************************************************************************)
\* SpecStep: grids of at most MaxRows x MaxCols cells
MaxRows == 3
MaxCols == 3
\* SpecGrid: grids of at most MaxCells cells (rows * cols)
MaxCells == 3
\* Spec: terminals of at most MaxTermCells cells, start-up files of at most
\* MaxFileLen characters
MaxTermCells == 2
MaxFileLen == 2
\* SpecFile: texts of at most MaxTextLen characters, grids of at most
\* MaxSaveCells cells
MaxTextLen == 6
MaxSaveCells == 4

(***************************************************************************)
(* Values                                                                  *)
(***************************************************************************)
Min(a, b) == IF a < b THEN a ELSE b

\* Vec<Vec<bool>> with r rows of c entries
Matrices(r, c) == [1..r -> [1..c -> BOOLEAN]]

\* the pairs (rows, cols) of at most n cells; a dimension of 0 is allowed
Dims(n) == {d \in (0..n) \X (0..n) : d[1] * d[2] <= n}

\* A text is a sequence of characters.  "2" stands for any character that is
\* neither '0', '1' nor a line terminator.
Alphabet == {"0", "1", "2", "\n"}

Texts(n) == UNION {[1..k -> Alphabet] : k \in 0..n}

NoGrid == [none |-> TRUE]

(***************************************************************************)
(* conway.rs: Grid                                                         *)
(***************************************************************************)
\* struct Grid { saved, grid, rows, cols, paused }
Grid(g, s, r, c, p) == [grid |-> g, saved |-> s, rows |-> r, cols |-> c, paused |-> p]

\* every outcome of rng.random_bool(0.5) per cell
create_random_vec(rows, cols) == Matrices(rows, cols)

new_saved_blank(rows, cols) ==
    {Grid(g, [i \in 1..rows |-> [j \in 1..cols |-> FALSE]], rows, cols, FALSE) :
        g \in create_random_vec(rows, cols)}

\* Grid::new: saved is a clone of the random matrix, paused is false
new(rows, cols) == {Grid(g, g, rows, cols, FALSE) : g \in create_random_vec(rows, cols)}

restart_transposed(self) ==
    {[self EXCEPT !.grid = g] : g \in create_random_vec(self.cols, self.rows)}

restart_both(self) ==
    {[self EXCEPT !.grid = g, !.saved = g] : g \in create_random_vec(self.rows, self.cols)}

\* Grid::restart: only self.grid is assigned
restart(self) == {[self EXCEPT !.grid = g] : g \in create_random_vec(self.rows, self.cols)}

save_state_noop(self) == self

save_state(self) == [self EXCEPT !.saved = self.grid]

load_state(self) == [self EXCEPT !.grid = self.saved]

\* Grid::draw queues one glyph per cell of self.grid on stdout and flushes;
\* although it takes &mut self it assigns no field.  The glyphs on the screen
\* are not part of the model's state.
draw(self) == self

\* the i, 0-based, that the enumerate() loop of draw runs through
draw_rows(self) == 0..(Len(self.grid) - 1)

draw_sub_operands_hoisted(self) == {self.rows}

\* the left operands of the usize subtraction in `if i < self.rows - 1 {}`,
\* evaluated once for every row the loop of draw runs through
draw_sub_operands(self) == {self.rows : i \in draw_rows(self)}

toggle_pause_stuck(self) == [self EXCEPT !.paused = TRUE]

toggle_pause(self) == [self EXCEPT !.paused = ~self.paused]

paused(self) == self.paused

\* x.saturating_sub(1)
saturating_sub1(x) == IF x = 0 THEN 0 ELSE x - 1

\* count_neighbors(x, y), x and y 0-based as in the source; the matrix of the
\* model is 1-based, so cell (i, j) of the source is grid[i + 1][j + 1].
\* The source evaluates self.rows - 1 and self.cols - 1 in usize: the
\* operator is meant for rows >= 1 and cols >= 1.
count_neighbors_self(self, x, y) ==
    Cardinality({ij \in (saturating_sub1(x)..Min(x + 1, self.rows - 1))
                         \X (saturating_sub1(y)..Min(y + 1, self.cols - 1)) :
                    self.grid[ij[1] + 1][ij[2] + 1]})

\* the (i, j) the two for loops of count_neighbors run through
neighbor_window(self, x, y) ==
    (saturating_sub1(x)..Min(x + 1, self.rows - 1))
        \X (saturating_sub1(y)..Min(y + 1, self.cols - 1))

\* the (i, j) at which count_neighbors reads self.grid[i][j]: && does not
\* evaluate its right side at (x, y)
neighbor_reads(self, x, y) == neighbor_window(self, x, y) \ {<<x, y>>}

\* the left operands of the usize subtractions `self.rows - 1` and
\* `self.cols - 1` a call evaluates: the first once, the second once for
\* every i of the outer loop
neighbor_sub_operands(self, x, y) ==
    {self.rows} \cup {self.cols : i \in saturating_sub1(x)..Min(x + 1, self.rows - 1)}

count_neighbors(self, x, y) ==
    Cardinality({ij \in neighbor_reads(self, x, y) : self.grid[ij[1] + 1][ij[2] + 1]})

matches_rule_only3(cell, neighbors) == neighbors = 3

\* matches!((cell, neighbors), (true, 2..=3) | (false, 3))
matches_rule(cell, neighbors) ==
    \/ cell /\ neighbors \in 2..3
    \/ ~cell /\ neighbors = 3

\* A single-buffered update: the cells are rewritten one by one in row-major
\* order, each reading the matrix as rewritten so far.
RECURSIVE InPlaceFrom(_, _)
InPlaceFrom(self, k) ==
    IF k >= self.rows * self.cols THEN self
    ELSE LET i == k \div self.cols
             j == k % self.cols
             v == matches_rule(self.grid[i + 1][j + 1], count_neighbors(self, i, j))
         IN InPlaceFrom([self EXCEPT !.grid[i + 1][j + 1] = v], k + 1)

update_grid_in_place(self) == InPlaceFrom(self, 0)

\* the (i, j), 0-based, that the enumerate() loops of update_grid run through:
\* the entries self.grid has.  Each is passed to count_neighbors and then
\* indexes new[i][j].
update_grid_cells(self) ==
    UNION {{<<i - 1, j - 1>> : j \in 1..Len(self.grid[i])} : i \in 1..Len(self.grid)}

\* Grid::update_grid: new starts as rows x cols of false, every cell of
\* self.grid sets its entry from self.grid, then self.grid = new
update_grid(self) ==
    [self EXCEPT !.grid =
        [i \in 1..self.rows |->
            [j \in 1..self.cols |->
                IF <<i - 1, j - 1>> \in update_grid_cells(self)
                THEN matches_rule(self.grid[i][j], count_neighbors(self, i - 1, j - 1))
                ELSE FALSE]]]

(***************************************************************************)
(* conway.rs: save_to_file and from_file                                   *)
(***************************************************************************)
\* A path names a file with a text, or no readable file.
NoFile == [exists |-> FALSE, text |-> <<>>]
File(text) == [exists |-> TRUE, text |-> text]

\* let c = if cell { '1' } else { '0' }
cell_char(cell) == IF cell THEN "1" ELSE "0"

RECURSIVE row_text(_, _)
row_text(row, k) ==
    IF k > Len(row) THEN <<>> ELSE <<cell_char(row[k])>> \o row_text(row, k + 1)

\* the characters save_to_file writes when every write succeeds: for each row
\* of self.grid its cells, then writeln!
RECURSIVE text_from(_, _)
text_from(self, i) ==
    IF i > Len(self.grid) THEN <<>>
    ELSE row_text(self.grid[i], 1) \o <<"\n">> \o text_from(self, i + 1)

written_text(self) == text_from(self, 1)

\* Grid::save_to_file on a path whose file is `old`: the outcomes are
\*   File::create fails: Err, the file is as it was;
\*   a write! / writeln! fails after k characters: Err, the file (truncated
\*   by File::create, written unbuffered) holds those k characters;
\*   every write succeeds: Ok.
\* self is borrowed immutably: the Grid is the same afterwards.
save_to_file(self, old) ==
    LET text == written_text(self)
    IN {[ok |-> FALSE, file |-> old]}
       \cup {[ok |-> FALSE, file |-> File(SubSeq(text, 1, k))] : k \in 0..(Len(text) - 1)}
       \cup {[ok |-> TRUE, file |-> File(text)]}

\* str::lines(): the text is split after every "\n", the "\n" is not part of
\* the line, and a text that ends in "\n" has no empty last line.
RECURSIVE lines(_)
lines(str) ==
    IF str = <<>> THEN <<>>
    ELSE LET nl == {k \in 1..Len(str) : str[k] = "\n"}
         IN IF nl = {} THEN <<str>>
            ELSE LET k == CHOOSE n \in nl : \A m \in nl : n <= m
                 IN <<SubSeq(str, 1, k - 1)>> \o lines(SubSeq(str, k + 1, Len(str)))

\* GridError and the results of from_file
Io == [kind |-> "Io"]
Parse(c) == [kind |-> "Parse", char |-> c]
InconsistentWidth == [kind |-> "InconsistentWidth"]
Err(e) == [tag |-> "Err", err |-> e]
Ok(v) == [tag |-> "Ok", val |-> v]
\* Option::unwrap on None
Panic == [tag |-> "Panic"]

\* for c in line.chars() { match c { '0' => .., '1' => .., invalid => return Err } }
RECURSIVE parse_row(_, _, _)
parse_row(line, k, row) ==
    IF k > Len(line) THEN Ok(row)
    ELSE IF line[k] = "0" THEN parse_row(line, k + 1, Append(row, FALSE))
    ELSE IF line[k] = "1" THEN parse_row(line, k + 1, Append(row, TRUE))
    ELSE Err(Parse(line[k]))

NoLen == -1

\* the loop with the characters of a line matched before its length is compared
RECURSIVE parse_lines_chars_first(_, _, _, _)
parse_lines_chars_first(ls, i, prev_len, grid) ==
    IF i > Len(ls) THEN Ok(grid)
    ELSE LET r == parse_row(ls[i], 1, <<>>)
         IN IF r.tag = "Err" THEN r
            ELSE IF prev_len # NoLen /\ Len(ls[i]) # prev_len THEN Err(InconsistentWidth)
            ELSE parse_lines_chars_first(ls, i + 1,
                     IF prev_len = NoLen THEN Len(ls[i]) ELSE prev_len,
                     Append(grid, r.val))

\* for line in str.lines(): the length is compared with prev_len (set by the
\* first line) before the characters of the line are matched
RECURSIVE parse_lines(_, _, _, _)
parse_lines(ls, i, prev_len, grid) ==
    IF i > Len(ls) THEN Ok(grid)
    ELSE IF prev_len # NoLen /\ Len(ls[i]) # prev_len THEN Err(InconsistentWidth)
    ELSE LET r == parse_row(ls[i], 1, <<>>)
         IN IF r.tag = "Err" THEN r
            ELSE parse_lines(ls, i + 1,
                     IF prev_len = NoLen THEN Len(ls[i]) ELSE prev_len,
                     Append(grid, r.val))

\* Grid::from_file on a path whose file is `file` (NoFile: read_to_string
\* fails); set_size_ok is whether execute!(SetSize) succeeds when reached.
\* rows and cols are taken from str.lines() after the loop; next().unwrap()
\* panics when the text has no line.
from_file(file, set_size_ok) ==
    IF file = NoFile THEN Err(Io)
    ELSE LET ls == lines(file.text)
             p == parse_lines(ls, 1, NoLen, <<>>)
         IN IF p.tag = "Err" THEN p
            ELSE IF ls = <<>> THEN Panic
            ELSE IF ~set_size_ok THEN Err(Io)
            ELSE Ok(Grid(p.val, p.val, Len(ls), Len(ls[1]), FALSE))

(***************************************************************************)
(* conway.rs: prepare_terminal, restore_terminal, Drop                     *)
(***************************************************************************)
\* The terminal: its size as terminal::size() reports it, (columns, rows),
\* raw mode, the alternate screen, the hidden cursor.
Terminal(size, raw, alt, hidden) ==
    [size |-> size, raw |-> raw, alt |-> alt, hidden |-> hidden]

\* prepare_terminal: enable_raw_mode()?; execute!(EnterAlternateScreen, Hide)?
prepare_terminal(t) ==
    {[ok |-> FALSE, term |-> t],
     [ok |-> FALSE, term |-> [t EXCEPT !.raw = TRUE]],
     [ok |-> TRUE, term |-> [t EXCEPT !.raw = TRUE, !.alt = TRUE, !.hidden = TRUE]]}

\* restore_terminal: execute!(Show, LeaveAlternateScreen)?; disable_raw_mode()?
restore_terminal(t) ==
    {[ok |-> FALSE, term |-> t],
     [ok |-> FALSE, term |-> [t EXCEPT !.alt = FALSE, !.hidden = FALSE]],
     [ok |-> TRUE, term |-> [t EXCEPT !.alt = FALSE, !.hidden = FALSE, !.raw = FALSE]]}

(***************************************************************************)
(* main.rs: handle_key_event                                               *)
(***************************************************************************)
\* KeyCode::Char(c) for the letters of the command table in both cases, "x"
\* for any other character, and KeyCode::Esc for the keys that are no Char
KeyCodes == {"r", "R", "s", "S", "l", "L", "p", "P", "q", "Q", "c", "C", "x", "Esc"}

\* KeyEvent { code, modifiers }: ctrl is modifiers.contains(KM::CONTROL)
KeyEvents == [code : KeyCodes, ctrl : BOOLEAN]

to_ascii_lowercase(code) ==
    CASE code = "R" -> "r"
      [] code = "S" -> "s"
      [] code = "L" -> "l"
      [] code = "P" -> "p"
      [] code = "Q" -> "q"
      [] code = "C" -> "c"
      [] OTHER -> code

\* the pattern Char(c) with the guard c.eq_ignore_ascii_case(&letter)
is_char(e, letter) == e.code # "Esc" /\ to_ascii_lowercase(e.code) = letter

\* what handle_key_event returns: Ok(true), Ok(false) or the save error
Continue == "Ok(true)"
Break == "Ok(false)"
Failed == "Err"

Handled(ret, self, file) == [ret |-> ret, grid |-> self, file |-> file]

\* the arms with `s` tried before `Ctrl+s`
handle_key_event_s_first(e, self, file) ==
    IF is_char(e, "r") THEN {Handled(Continue, g, file) : g \in restart(self)}
    ELSE IF is_char(e, "s") THEN {Handled(Continue, save_state(self), file)}
    ELSE IF e.ctrl /\ is_char(e, "s")
        THEN {Handled(IF o.ok THEN Continue ELSE Failed, self, o.file) :
                 o \in save_to_file(self, file)}
    ELSE IF is_char(e, "l") THEN {Handled(Continue, load_state(self), file)}
    ELSE IF is_char(e, "p") THEN {Handled(Continue, toggle_pause(self), file)}
    ELSE IF e.code = "Esc" THEN {Handled(Break, self, file)}
    ELSE IF is_char(e, "q") THEN {Handled(Break, self, file)}
    ELSE IF e.ctrl /\ is_char(e, "c") THEN {Handled(Break, self, file)}
    ELSE {Handled(Continue, self, file)}

handle_key_event_q_ignored(e, self, file) ==
    IF is_char(e, "r") THEN {Handled(Continue, g, file) : g \in restart(self)}
    ELSE IF e.ctrl /\ is_char(e, "s")
        THEN {Handled(IF o.ok THEN Continue ELSE Failed, self, o.file) :
                 o \in save_to_file(self, file)}
    ELSE IF is_char(e, "s") THEN {Handled(Continue, save_state(self), file)}
    ELSE IF is_char(e, "l") THEN {Handled(Continue, load_state(self), file)}
    ELSE IF is_char(e, "p") THEN {Handled(Continue, toggle_pause(self), file)}
    ELSE IF e.code = "Esc" THEN {Handled(Break, self, file)}
    ELSE IF e.ctrl /\ is_char(e, "c") THEN {Handled(Break, self, file)}
    ELSE {Handled(Continue, self, file)}

\* handle_key_event(event, grid, filename), `file` being the file at
\* filename: the arms of the match in their order; save_to_file(filename)?
\* returns its error to main
handle_key_event(e, self, file) ==
    IF is_char(e, "r") THEN {Handled(Continue, g, file) : g \in restart(self)}
    ELSE IF e.ctrl /\ is_char(e, "s")
        THEN {Handled(IF o.ok THEN Continue ELSE Failed, self, o.file) :
                 o \in save_to_file(self, file)}
    ELSE IF is_char(e, "s") THEN {Handled(Continue, save_state(self), file)}
    ELSE IF is_char(e, "l") THEN {Handled(Continue, load_state(self), file)}
    ELSE IF is_char(e, "p") THEN {Handled(Continue, toggle_pause(self), file)}
    ELSE IF e.code = "Esc" THEN {Handled(Break, self, file)}
    ELSE IF is_char(e, "q") THEN {Handled(Break, self, file)}
    ELSE IF e.ctrl /\ is_char(e, "c") THEN {Handled(Break, self, file)}
    ELSE {Handled(Continue, self, file)}

(***************************************************************************)
(* State                                                                   *)
(***************************************************************************)
VARIABLES
    pc,         \* Spec: where main is; SpecStep, SpecGrid, SpecFile: the call that returned last
    grid,       \* main's `grid`: a Grid, or NoGrid before it is bound
    loaded,     \* the value of from_file(..).map_err(..).ok().filter(..), or of from_file alone
    fallback,   \* the argument of unwrap_or: Grid::new(x, y)
    event,      \* the key event read in this iteration of the loop
    fs,         \* the files: path -> text or NoFile
    args,       \* std::env::args().nth(1): a path or NoArg
    size,       \* main's (y, x): what terminal::size() returned
    term,       \* the terminal
    restores,   \* how many times restore_terminal has been invoked
    stderr,     \* the messages written by eprintln!
    result,     \* how main ended, "none" while it runs
    held,       \* history: the matrix at construction, then at every save_state
    everSaved   \* history: save_state has been called

vars == <<pc, grid, loaded, fallback, event, fs, args, size, term, restores,
          stderr, result, held, everSaved>>

NoArg == "NoArg"
NoEvent == [none |-> TRUE]
None == [tag |-> "None"]

Paths == {"user.data", "grid.data"}

\* the values of the variables a specification does not use
Idle ==
    /\ loaded = None
    /\ fallback = NoGrid
    /\ event = NoEvent
    /\ fs = [p \in Paths |-> NoFile]
    /\ args = NoArg
    /\ size = <<0, 0>>
    /\ term = Terminal(<<0, 0>>, FALSE, FALSE, FALSE)
    /\ restores = 0
    /\ stderr = <<>>
    /\ result = "none"
    /\ held = <<>>
    /\ everSaved = FALSE

(***************************************************************************)
(* SpecStep: update_grid on every grid of at most MaxRows x MaxCols        *)
(***************************************************************************)
InitStep ==
    /\ pc = "new"
    /\ \E r \in 0..MaxRows, c \in 0..MaxCols : grid \in new(r, c)
    /\ Idle

StepUpdate ==
    /\ grid' = update_grid(grid)
    /\ pc' = "update_grid"
    /\ UNCHANGED <<loaded, fallback, event, fs, args, size, term, restores,
                   stderr, result, held, everSaved>>

NextStep == StepUpdate

SpecStep == InitStep /\ [][NextStep]_vars

(***************************************************************************)
(* C1                                                                      *)
(***************************************************************************)
\* the live cells of matrix m among the eight cells around (i, j), 1-based,
\* that lie inside an r x c matrix
LiveAround(m, r, c, i, j) ==
    Cardinality({d \in {-1, 0, 1} \X {-1, 0, 1} :
                    /\ d # <<0, 0>>
                    /\ i + d[1] \in 1..r
                    /\ j + d[2] \in 1..c
                    /\ m[i + d[1]][j + d[2]]})

\* C1: after one update_grid every cell is alive iff, in the matrix as it was
\* before the call, it was alive with exactly 2 or 3 live neighbours or dead
\* with exactly 3; nothing else of the Grid changes, so the new matrix is a
\* function of the old matrix alone.
C1_ConwayRule ==
    [][ /\ grid'.rows = grid.rows
        /\ grid'.cols = grid.cols
        /\ grid'.saved = grid.saved
        /\ grid'.paused = grid.paused
        /\ DOMAIN grid'.grid = 1..grid.rows
        /\ \A i \in 1..grid.rows :
            /\ DOMAIN grid'.grid[i] = 1..grid.cols
            /\ \A j \in 1..grid.cols :
                grid'.grid[i][j] <=>
                    LET n == LiveAround(grid.grid, grid.rows, grid.cols, i, j)
                    IN \/ grid.grid[i][j] /\ (n = 2 \/ n = 3)
                       \/ ~grid.grid[i][j] /\ n = 3 ]_vars

\* a 3 x 3 grid has been updated, a cell was born and a cell died of
\* overcrowding next to a cell that had itself changed
C1_Witness ==
    /\ pc = "update_grid"
    /\ grid.rows = 3 /\ grid.cols = 3
    /\ grid.saved = <<<<TRUE, TRUE, FALSE>>, <<TRUE, TRUE, TRUE>>, <<FALSE, FALSE, FALSE>>>>
    /\ grid.grid = <<<<TRUE, FALSE, TRUE>>, <<TRUE, FALSE, TRUE>>, <<FALSE, TRUE, FALSE>>>>

(***************************************************************************)
(* SpecGrid: one Grid, built by either constructor, driven by any sequence *)
(* of its public methods.  pc is the call that returned last.              *)
(***************************************************************************)
LibPath == "grid.data"

\* the Grids from_file returns on the texts of at most n characters
FromFileGrids(n) ==
    {from_file(File(t), TRUE).val :
        t \in {u \in Texts(n) : from_file(File(u), TRUE).tag = "Ok"}}

InitGrid ==
    /\ \/ /\ pc = "new"
          /\ \E d \in Dims(MaxCells) : grid \in new(d[1], d[2])
       \/ /\ pc = "from_file"
          /\ grid \in FromFileGrids(MaxFileLen)
    /\ loaded = None
    /\ fallback = NoGrid
    /\ event = NoEvent
    /\ fs = [p \in Paths |-> NoFile]
    /\ args = NoArg
    /\ size = <<0, 0>>
    /\ term = Terminal(<<0, 0>>, FALSE, FALSE, FALSE)
    /\ restores = 0
    /\ stderr = <<>>
    /\ result = "none"
    /\ held = grid.grid
    /\ everSaved = FALSE

GridRest == <<loaded, fallback, event, args, size, term, restores, stderr, result>>

GridUpdate ==
    /\ grid' = update_grid(grid)
    /\ pc' = "update_grid"
    /\ UNCHANGED <<GridRest, fs, held, everSaved>>

GridRestart ==
    /\ grid' \in restart(grid)
    /\ pc' = "restart"
    /\ UNCHANGED <<GridRest, fs, held, everSaved>>

GridSaveState ==
    /\ grid' = save_state(grid)
    /\ pc' = "save_state"
    /\ held' = grid.grid
    /\ everSaved' = TRUE
    /\ UNCHANGED <<GridRest, fs>>

GridLoadState ==
    /\ grid' = load_state(grid)
    /\ pc' = "load_state"
    /\ UNCHANGED <<GridRest, fs, held, everSaved>>

GridTogglePause ==
    /\ grid' = toggle_pause(grid)
    /\ pc' = "toggle_pause"
    /\ UNCHANGED <<GridRest, fs, held, everSaved>>

GridSaveToFile ==
    /\ \E o \in save_to_file(grid, fs[LibPath]) :
        /\ fs' = [fs EXCEPT ![LibPath] = o.file]
        /\ pc' = IF o.ok THEN "save_to_file" ELSE "save_to_file failed"
    /\ UNCHANGED <<GridRest, grid, held, everSaved>>

GridDraw ==
    /\ grid' = draw(grid)
    /\ pc' = "draw"
    /\ UNCHANGED <<GridRest, fs, held, everSaved>>

NextGrid ==
    \/ GridUpdate
    \/ GridRestart
    \/ GridSaveState
    \/ GridLoadState
    \/ GridTogglePause
    \/ GridSaveToFile
    \/ GridDraw

SpecGrid == InitGrid /\ [][NextGrid]_vars

(***************************************************************************)
(* C5, C6                                                                  *)
(***************************************************************************)
\* C5: once save_state has been called, a load_state that follows any
\* sequence of the other methods (update_grid, restart, toggle_pause,
\* save_to_file, draw, load_state) leaves self.grid equal to the matrix it
\* held at the most recent save_state.
C5_LoadRestoresSaved ==
    pc = "load_state" /\ everSaved => grid.grid = held

\* load_state brought back a saved matrix with live cells after a different
\* matrix of the same Grid had been written in full to the file
C5_Witness ==
    /\ pc = "load_state"
    /\ everSaved
    /\ grid.rows * grid.cols = MaxCells
    /\ grid.grid = held
    /\ \E i \in 1..grid.rows : \E j \in 1..grid.cols : grid.grid[i][j]
    /\ fs[LibPath].exists
    /\ Len(fs[LibPath].text) = Len(written_text(grid))
    /\ fs[LibPath].text # written_text(grid)

\* C6: while save_state has never been called on a Grid built by Grid::new or
\* Grid::from_file, load_state leaves self.grid equal to the matrix the Grid
\* was constructed with (load_state returns nothing, so it reports no error).
C6_LoadRestoresConstruction ==
    pc = "load_state" /\ ~everSaved => grid.grid = held /\ grid.saved = held

\* load_state ran on a never-saved, paused Grid and brought back the
\* construction matrix after a different matrix of the same Grid had been
\* written in full to the file
C6_Witness ==
    /\ pc = "load_state"
    /\ ~everSaved
    /\ grid.paused
    /\ grid.rows * grid.cols = MaxCells
    /\ grid.grid = held
    /\ \E i \in 1..grid.rows : \E j \in 1..grid.cols : grid.grid[i][j]
    /\ fs[LibPath].exists
    /\ Len(fs[LibPath].text) = Len(written_text(grid))
    /\ fs[LibPath].text # written_text(grid)

(***************************************************************************)
(* SpecFile: from_file on every text of at most MaxTextLen characters, and *)
(* save_to_file followed by from_file on every Grid of at most             *)
(* MaxSaveCells cells.  pc is the call that returned last.                 *)
(***************************************************************************)
InitFile ==
    /\ \/ /\ pc = "start"
          /\ grid = NoGrid
          /\ \E f \in {File(t) : t \in Texts(MaxTextLen)} \cup {NoFile} :
                fs = [p \in Paths |-> IF p = LibPath THEN f ELSE NoFile]
       \/ /\ pc = "new"
          /\ \E d \in Dims(MaxSaveCells) : grid \in new(d[1], d[2])
          /\ fs = [p \in Paths |-> NoFile]
    /\ loaded = None
    /\ fallback = NoGrid
    /\ event = NoEvent
    /\ args = NoArg
    /\ size = <<0, 0>>
    /\ term = Terminal(<<0, 0>>, FALSE, FALSE, FALSE)
    /\ restores = 0
    /\ stderr = <<>>
    /\ result = "none"
    /\ held = <<>>
    /\ everSaved = FALSE

FileRest == <<fallback, event, args, size, restores, stderr, result, held, everSaved>>

\* grid.save_to_file(LibPath)
FileSave ==
    /\ pc \in {"new", "bound"}
    /\ \E o \in save_to_file(grid, fs[LibPath]) :
        /\ fs' = [fs EXCEPT ![LibPath] = o.file]
        /\ pc' = IF o.ok THEN "save_to_file" ELSE "save_to_file failed"
    /\ UNCHANGED <<FileRest, grid, loaded, term>>

\* Grid::from_file(LibPath), on the start-up text or on the text just saved
FileLoad ==
    /\ pc \in {"start", "save_to_file"}
    /\ \E set_size_ok \in BOOLEAN :
        LET r == from_file(fs[LibPath], set_size_ok)
        IN /\ loaded' = r
           /\ term' = IF r.tag = "Ok"
                      THEN [term EXCEPT !.size = <<r.val.cols, r.val.rows>>]
                      ELSE term
    /\ pc' = "from_file"
    /\ UNCHANGED <<FileRest, grid, fs>>

\* the caller binds the Grid that from_file returned
FileBind ==
    /\ pc = "from_file"
    /\ grid = NoGrid
    /\ loaded.tag = "Ok"
    /\ grid' = loaded.val
    /\ loaded' = None
    /\ pc' = "bound"
    /\ UNCHANGED <<FileRest, fs, term>>

NextFile ==
    \/ FileSave
    \/ FileLoad
    \/ FileBind

SpecFile == InitFile /\ [][NextFile]_vars

(***************************************************************************)
(* C7, C8                                                                  *)
(***************************************************************************)
\* C7: for every grid, from_file on the text that save_to_file wrote succeeds
\* (when the terminal resize it performs does) and returns a Grid with the
\* rows, the cols and the matrix of the grid that was saved, its snapshot
\* equal to that matrix.
C7_RoundTrip ==
    pc = "from_file" /\ grid # NoGrid /\ loaded # Err(Io) =>
        /\ loaded.tag = "Ok"
        /\ loaded.val.rows = grid.rows
        /\ loaded.val.cols = grid.cols
        /\ loaded.val.grid = grid.grid
        /\ loaded.val.saved = grid.grid

\* the rows of a text, and what can be wrong with them
Rows(file) == lines(file.text)

BadChars(row) == {k \in 1..Len(row) : row[k] \notin {"0", "1"}}

HasBadChar(file) == \E i \in 1..Len(Rows(file)) : BadChars(Rows(file)[i]) # {}

Ragged(file) ==
    \E i, j \in 1..Len(Rows(file)) : Len(Rows(file)[i]) # Len(Rows(file)[j])

Defective(file, i) ==
    \/ Len(Rows(file)[i]) # Len(Rows(file)[1])
    \/ BadChars(Rows(file)[i]) # {}

\* C8 as claimed: on a readable file, from_file fails with Parse(c), c a
\* character of a row other than '0' and '1', whenever there is such a
\* character, and with InconsistentWidth whenever two rows differ in length;
\* on success rows is the number of lines and cols the length of the first.
C8_AsClaimed ==
    pc = "from_file" /\ fs[LibPath].exists =>
        /\ HasBadChar(fs[LibPath]) =>
            /\ loaded.tag = "Err"
            /\ loaded.err.kind = "Parse"
            /\ \E i \in 1..Len(Rows(fs[LibPath])) :
                 \E k \in BadChars(Rows(fs[LibPath])[i]) :
                    loaded.err.char = Rows(fs[LibPath])[i][k]
        /\ Ragged(fs[LibPath]) => loaded = Err(InconsistentWidth)
        /\ loaded.tag = "Ok" =>
            /\ loaded.val.rows = Len(Rows(fs[LibPath]))
            /\ loaded.val.cols = Len(Rows(fs[LibPath])[1])

\* C8 amended: on a readable file with a row that has a character other than
\* '0' and '1' or a length other than the first row's, from_file fails with
\* the error of the first such row: InconsistentWidth if its length differs
\* from the first row's, else Parse(c) for its first character c other than
\* '0' and '1'.  Without such a row neither error is returned.  On success
\* rows is the number of lines and cols the length of the first line.
C8_FirstDefect ==
    pc = "from_file" /\ fs[LibPath].exists =>
        LET f == fs[LibPath]
            bad == {i \in 1..Len(Rows(f)) : Defective(f, i)}
        IN /\ bad # {} =>
                LET i == CHOOSE n \in bad : \A m \in bad : n <= m
                    row == Rows(f)[i]
                IN IF Len(row) # Len(Rows(f)[1])
                   THEN loaded = Err(InconsistentWidth)
                   ELSE LET k == CHOOSE n \in BadChars(row) :
                                    \A m \in BadChars(row) : n <= m
                        IN loaded = Err(Parse(row[k]))
           /\ bad = {} => loaded \in {Panic, Err(Io)} \/ loaded.tag = "Ok"
           /\ loaded.tag = "Ok" =>
                /\ loaded.val.rows = Len(Rows(f))
                /\ loaded.val.cols = Len(Rows(f)[1])

\* from_file returned InconsistentWidth on rows "01", "2": the second row has
\* both defects and the width is what is reported
C8_Witness ==
    /\ pc = "from_file"
    /\ fs[LibPath] = File(<<"0", "1", "\n", "2">>)
    /\ loaded = Err(InconsistentWidth)

(***************************************************************************)
(* Spec: the program.  main.rs: main                                       *)
(***************************************************************************)
Args == {NoArg} \cup Paths

\* let (filename, provided) = match std::env::args().nth(1) { .. }
filename_default == "grid.data"

filename == IF args = NoArg THEN "grid.data" ELSE args
provided == args # NoArg

\* The terminal has any size of at most MaxTermCells cells; the file at
\* `filename` is absent or holds any text of at most MaxFileLen characters.
\* The other path is never read or written by main and starts absent.
Init ==
    /\ pc = "start"
    /\ grid = NoGrid
    /\ loaded = None
    /\ fallback = NoGrid
    /\ event = NoEvent
    /\ args \in Args
    /\ \E f \in {File(t) : t \in Texts(MaxFileLen)} \cup {NoFile} :
            fs = [p \in Paths |-> IF p = filename THEN f ELSE NoFile]
    /\ size = <<0, 0>>
    /\ \E d \in Dims(MaxTermCells) : term = Terminal(<<d[2], d[1]>>, FALSE, FALSE, FALSE)
    /\ restores = 0
    /\ stderr = <<>>
    /\ result = "none"
    /\ held = <<>>
    /\ everSaved = FALSE

History == <<held, everSaved>>

\* the closure of map_err: eprintln!("Error while loading from file: ..") and
\* thread::sleep(Duration::from_secs(3)), on the stderr written so far
LoadDiag == "Error while loading from file"

map_err(log) == Append(log, LoadDiag)

\* impl Drop for Grid: restore_terminal is invoked, a failure is printed
Drop(t) ==
    \E o \in restore_terminal(t) :
        /\ term' = o.term
        /\ restores' = restores + 1
        /\ stderr' = IF o.ok THEN stderr ELSE Append(stderr, "Error restoring terminal")

\* let (y, x) = terminal::size().expect("Unable to get size")
Start ==
    /\ pc = "start"
    /\ \/ /\ size' = term.size
          /\ pc' = "from_file"
          /\ UNCHANGED result
       \/ /\ result' = "panic: Unable to get size"
          /\ pc' = "exited"
          /\ UNCHANGED size
    /\ UNCHANGED <<grid, loaded, fallback, event, fs, args, term, restores, stderr, History>>

\* Grid::from_file(&filename).map_err(..).ok().filter(|_| provided):
\* from_file resizes the terminal when it has parsed the file; map_err prints
\* the error and sleeps 3 s; filter drops a loaded Grid when no file name was
\* given.  A panic inside from_file ends the process: no Grid exists yet.
Load ==
    /\ pc = "from_file"
    /\ \E set_size_ok \in BOOLEAN :
        LET r == from_file(fs[filename], set_size_ok)
            resized == [term EXCEPT !.size = <<r.val.cols, r.val.rows>>]
        IN \/ /\ r = Panic
              /\ result' = "panic: unwrap on None"
              /\ pc' = "exited"
              /\ UNCHANGED <<loaded, term, restores, stderr>>
           \/ /\ r.tag = "Err"
              /\ stderr' = map_err(stderr)
              /\ loaded' = None
              /\ pc' = "new"
              /\ UNCHANGED <<result, term, restores>>
           \/ /\ r.tag = "Ok"
              /\ provided
              /\ loaded' = r
              /\ term' = resized
              /\ pc' = "new"
              /\ UNCHANGED <<result, restores, stderr>>
           \/ /\ r.tag = "Ok"
              /\ ~provided
              /\ Drop(resized)
              /\ loaded' = None
              /\ pc' = "new"
              /\ UNCHANGED result
    /\ UNCHANGED <<grid, fallback, event, fs, args, size, History>>

\* the argument of unwrap_or, evaluated whatever `loaded` is:
\* Grid::new(x as usize, y as usize)
New ==
    /\ pc = "new"
    /\ fallback' \in new(size[2], size[1])
    /\ pc' = "unwrap_or"
    /\ UNCHANGED <<grid, loaded, event, fs, args, size, term, restores, stderr,
                   result, History>>

\* Option::unwrap_or: a loaded Grid is taken and the argument dropped, else
\* the argument is taken
UnwrapOr ==
    /\ pc = "unwrap_or"
    /\ \/ /\ loaded.tag = "Ok"
          /\ grid' = loaded.val
          /\ Drop(term)
       \/ /\ loaded = None
          /\ grid' = fallback
          /\ UNCHANGED <<term, restores, stderr>>
    /\ loaded' = None
    /\ fallback' = NoGrid
    /\ pc' = "prepare_terminal"
    /\ UNCHANGED <<event, fs, args, size, result, History>>

\* grid.prepare_terminal()?
Prepare ==
    /\ pc = "prepare_terminal"
    /\ \E o \in prepare_terminal(term) :
        /\ term' = o.term
        /\ \/ /\ o.ok
              /\ pc' = "poll"
              /\ UNCHANGED result
           \/ /\ ~o.ok
              /\ result' = "Err: prepare_terminal"
              /\ pc' = "drop"
    /\ UNCHANGED <<grid, loaded, fallback, event, fs, args, size, restores, stderr, History>>

\* if event::poll(0)? { if let Event::Key(event) = event::read()? { .. } }
\* poll or read fails and main returns the error; or there is no event, or
\* one that is no key event, and nothing is dispatched; or a key event is
\* read.
Poll ==
    /\ pc = "poll"
    /\ \/ /\ result' = "Err: event"
          /\ pc' = "drop"
          /\ UNCHANGED event
       \/ /\ pc' = "paused"
          /\ UNCHANGED <<event, result>>
       \/ /\ event' \in KeyEvents
          /\ pc' = "handle_key_event"
          /\ UNCHANGED result
    /\ UNCHANGED <<grid, loaded, fallback, fs, args, size, term, restores, stderr, History>>

\* if !handle_key_event(event, &mut grid, &filename)? { break; }
Dispatch ==
    /\ pc = "handle_key_event"
    /\ \E o \in handle_key_event(event, grid, fs[filename]) :
        /\ grid' = o.grid
        /\ fs' = [fs EXCEPT ![filename] = o.file]
        /\ \/ /\ o.ret = Continue
              /\ pc' = "paused"
              /\ UNCHANGED result
           \/ /\ o.ret = Break
              /\ result' = "Ok"
              /\ pc' = "drop"
           \/ /\ o.ret = Failed
              /\ result' = "Err: save_to_file"
              /\ pc' = "drop"
    /\ event' = NoEvent
    /\ UNCHANGED <<loaded, fallback, args, size, term, restores, stderr, History>>

Paused_to_draw ==
    /\ pc = "paused"
    /\ pc' = IF paused(grid) THEN "poll" ELSE "draw"
    /\ UNCHANGED <<grid, loaded, fallback, event, fs, args, size, term, restores,
                   stderr, result, History>>

\* if grid.paused() { continue; }
Paused ==
    /\ pc = "paused"
    /\ pc' = IF paused(grid) THEN "poll" ELSE "update_grid"
    /\ UNCHANGED <<grid, loaded, fallback, event, fs, args, size, term, restores,
                   stderr, result, History>>

\* grid.update_grid()
Update ==
    /\ pc = "update_grid"
    /\ grid' = update_grid(grid)
    /\ pc' = "draw"
    /\ UNCHANGED <<loaded, fallback, event, fs, args, size, term, restores,
                   stderr, result, History>>

\* grid.draw(); thread::sleep(1000 / FPS).  draw unwraps every write to
\* stdout: a failed write panics, and the unwinding drops the Grid.
Draw ==
    /\ pc = "draw"
    /\ grid' = draw(grid)
    /\ \/ /\ pc' = "poll"
          /\ UNCHANGED result
       \/ /\ result' = "panic: draw"
          /\ pc' = "drop"
    /\ UNCHANGED <<loaded, fallback, event, fs, args, size, term, restores,
                   stderr, History>>

\* main returns or unwinds: `grid` goes out of scope and is dropped.  The
\* model keeps the last value of the Grid.
DropGrid ==
    /\ pc = "drop"
    /\ Drop(term)
    /\ pc' = "exited"
    /\ UNCHANGED <<grid, loaded, fallback, event, fs, args, size, result, History>>

Next ==
    \/ Start
    \/ Load
    \/ New
    \/ UnwrapOr
    \/ Prepare
    \/ Poll
    \/ Dispatch
    \/ Paused
    \/ Update
    \/ Draw
    \/ DropGrid

Spec == Init /\ [][Next]_vars

\* main is one thread that runs until it returns or panics: a dispatch that
\* is due and a return that is due take place
SpecLive == Spec /\ WF_vars(Dispatch) /\ WF_vars(DropGrid)

(***************************************************************************)
(* C2, C3, C4, C9, C10                                                     *)
(***************************************************************************)
InLoop == pc \in {"poll", "handle_key_event", "paused", "update_grid", "draw"}

\* main returned, with Ok or with an error
Returned == {"Ok", "Err: prepare_terminal", "Err: event", "Err: save_to_file"}

\* C2: a Ctrl+s key event, also one whose write to the file fails, leaves the
\* Grid (cells, snapshot, pause flag) as it was and the loop goes on to its
\* pause test, to update_grid and to draw.
C2_SaveFailureKeepsLoop ==
    [][ pc = "handle_key_event" /\ event.ctrl /\ event.code \in {"s", "S"} =>
            /\ grid' = grid
            /\ pc' = "paused"
            /\ result' = "none" ]_vars

\* C3: on every path on which main returns, restore_terminal has been invoked
\* exactly once when the process ends, and not before the loop is left.
C3_RestoreExactlyOnce ==
    /\ InLoop => restores = 0
    /\ pc = "exited" /\ result \in Returned => restores = 1

\* C4: the p key flips the pause flag and nothing else of the Grid, so two of
\* them return the loop to the state it was in; an iteration whose pause test
\* finds the Grid paused goes back to the poll with the Grid as it was;
\* update_grid and draw are reached only while not paused; and between two
\* paused states of the loop the cells change only by the dispatch of an r or
\* an l key.
C4_Pause ==
    /\ [](pc \in {"update_grid", "draw"} => ~grid.paused)
    /\ [][ /\ pc = "handle_key_event" /\ event.code \in {"p", "P"} =>
                grid' = [grid EXCEPT !.paused = ~grid.paused]
           /\ pc = "paused" /\ grid.paused => pc' = "poll" /\ grid' = grid
           /\ InLoop /\ grid.paused /\ grid'.paused /\ grid'.grid # grid.grid =>
                pc = "handle_key_event" /\ event.code \in {"r", "R", "l", "L"} ]_vars

\* the pause test finds paused a Grid whose cells differ from its snapshot
C4_Witness ==
    /\ pc = "paused"
    /\ grid.paused
    /\ grid.grid # grid.saved
    /\ grid.rows * grid.cols = MaxTermCells

\* C9: whatever the file named at start-up holds, loading it never aborts the
\* process.
C9_LoadNeverAborts ==
    result # "panic: unwrap on None"

\* C10: the dispatch of a key event follows the command table, letters in
\* either case: r only restarts; Ctrl+s only writes the file at `filename`;
\* s without Ctrl only saves the snapshot; l only loads it; p only flips the
\* pause flag; Esc, q and Ctrl+c end the loop with Ok; any other key changes
\* nothing and the loop continues.
C10_CommandTable ==
    [][ pc = "handle_key_event" =>
          LET e == event
              same == grid' = grid /\ fs' = fs
              continue == pc' = "paused" /\ result' = "none"
          IN CASE e.code \in {"r", "R"} ->
                    /\ grid'.grid \in Matrices(grid.rows, grid.cols)
                    /\ grid' = [grid EXCEPT !.grid = grid'.grid]
                    /\ fs' = fs
                    /\ continue
               [] e.code \in {"s", "S"} /\ e.ctrl ->
                    /\ grid' = grid
                    /\ \A p \in Paths \ {filename} : fs'[p] = fs[p]
                    /\ \/ continue /\ fs'[filename] = File(written_text(grid))
                       \/ pc' = "drop" /\ result' = "Err: save_to_file"
               [] e.code \in {"s", "S"} /\ ~e.ctrl ->
                    /\ grid' = [grid EXCEPT !.saved = grid.grid]
                    /\ fs' = fs
                    /\ continue
               [] e.code \in {"l", "L"} ->
                    /\ grid' = [grid EXCEPT !.grid = grid.saved]
                    /\ fs' = fs
                    /\ continue
               [] e.code \in {"p", "P"} ->
                    /\ grid' = [grid EXCEPT !.paused = ~grid.paused]
                    /\ fs' = fs
                    /\ continue
               [] e.code \in {"Esc", "q", "Q"} \/ (e.code \in {"c", "C"} /\ e.ctrl) ->
                    same /\ pc' = "drop" /\ result' = "Ok"
               [] OTHER -> same /\ continue ]_vars

\* Ctrl+s has written the cells to the file while the snapshot differs from
\* them and the loop is paused
C10_Witness ==
    /\ pc = "paused"
    /\ grid.paused
    /\ grid.saved # grid.grid
    /\ fs[filename] = File(written_text(grid))
    /\ Len(written_text(grid)) > MaxFileLen

(***************************************************************************)
(* C11, C12                                                                *)
(***************************************************************************)
\* the load at start-up failed with a GridError: its diagnostic was printed
LoadFailed == \E k \in 1..Len(stderr) : stderr[k] = LoadDiag

\* the save target of the claim: the argument when it was given and its file
\* loaded, else grid.data
ClaimedTarget == IF provided /\ ~LoadFailed THEN args ELSE "grid.data"

\* C11: Ctrl+s writes the file argument only when it was given and its file
\* loaded; when no argument was given or the load failed it writes grid.data.
C11_SaveTarget ==
    [][ pc = "handle_key_event" /\ event.ctrl /\ event.code \in {"s", "S"} =>
            /\ \A p \in Paths \ {ClaimedTarget} : fs'[p] = fs[p]
            /\ pc' = "paused" => fs'[ClaimedTarget] = File(written_text(grid)) ]_vars

\* C11 amended: Ctrl+s writes the file argument whenever an argument was given,
\* whether or not its file loaded, and grid.data when none was given; no
\* other file changes, and a save that succeeds leaves the text of the cells
\* there.
C11_TargetIsArgument ==
    [][ pc = "handle_key_event" /\ event.ctrl /\ event.code \in {"s", "S"} =>
            LET target == IF provided THEN args ELSE "grid.data"
            IN /\ \A p \in Paths \ {target} : fs'[p] = fs[p]
               /\ pc' = "paused" => fs'[target] = File(written_text(grid)) ]_vars

\* the load of the given user.data failed and Ctrl+s has written the cells to
\* user.data, grid.data not existing
C11_Witness ==
    /\ pc = "paused"
    /\ args = "user.data"
    /\ LoadFailed
    /\ fs["user.data"] = File(written_text(grid))
    /\ Len(written_text(grid)) > MaxFileLen
    /\ ~fs["grid.data"].exists

\* C12: in the loop, when no argument was given or the load failed, the Grid
\* has the rows and columns of the terminal as it is then; and the terminal
\* has been resized only when a given file was parsed and its Grid is used.
C12_FallbackFitsTerminal ==
    InLoop =>
        /\ ~provided \/ LoadFailed =>
            grid.rows = term.size[2] /\ grid.cols = term.size[1]
        /\ term.size # size => provided /\ ~LoadFailed


(***************************************************************************)
(* C13                                                                     *)
(***************************************************************************)
\* C13: whatever sequence of update_grid, restart, save_state, load_state,
\* toggle_pause, save_to_file and draw follows either constructor, self.grid
\* and self.saved both have exactly self.rows rows of exactly self.cols
\* entries, and self.rows and self.cols never change.
C13_FixedDimensions ==
    /\ [](/\ grid.grid \in Matrices(grid.rows, grid.cols)
          /\ grid.saved \in Matrices(grid.rows, grid.cols))
    /\ [][grid'.rows = grid.rows /\ grid'.cols = grid.cols]_vars

\* a Grid that is not square has been saved and then restarted to a matrix
\* other than the saved one
C13_Witness ==
    /\ pc = "restart"
    /\ everSaved
    /\ grid.rows * grid.cols = MaxCells
    /\ grid.rows # grid.cols
    /\ grid.grid # grid.saved

(***************************************************************************)
(* C14, C15                                                                *)
(***************************************************************************)
\* C14: on a grid of at least one row and one column, count_neighbors(x, y)
\* of every cell inside it is the number of live cells inside the grid, other
\* than (x, y), at most one row and one column away, without wraparound; it
\* is at most 8, at most 5 on an edge, at most 3 in a corner, and 0 on a
\* 1 x 1 grid.  (The call takes &self: it is an operator on the Grid value
\* and assigns nothing.)
C14_NeighbourCount ==
    grid.rows >= 1 /\ grid.cols >= 1 =>
        \A x \in 0..(grid.rows - 1), y \in 0..(grid.cols - 1) :
            LET n == count_neighbors(grid, x, y)
                onRowEdge == x \in {0, grid.rows - 1}
                onColEdge == y \in {0, grid.cols - 1}
            IN /\ n = LiveAround(grid.grid, grid.rows, grid.cols, x + 1, y + 1)
               /\ n <= 8
               /\ onRowEdge \/ onColEdge => n <= 5
               /\ onRowEdge /\ onColEdge => n <= 3
               /\ grid.rows = 1 /\ grid.cols = 1 => n = 0

AllAlive3 == [i \in 1..3 |-> [j \in 1..3 |-> TRUE]]

\* the 3 x 3 grid of live cells only: the counts of the centre, of an edge
\* cell and of a corner reach 8, 5 and 3
C14_Witness ==
    /\ grid.rows = 3 /\ grid.cols = 3
    /\ grid.grid = AllAlive3
    /\ count_neighbors(grid, 1, 1) = 8
    /\ count_neighbors(grid, 0, 1) = 5
    /\ count_neighbors(grid, 2, 2) = 3

Dead3 == [i \in 1..3 |-> [j \in 1..3 |-> FALSE]]

CentreOnly3 == [i \in 1..3 |-> [j \in 1..3 |-> i = 2 /\ j = 2]]

HorizontalBlinker == [i \in 1..3 |-> [j \in 1..3 |-> i = 2]]

VerticalBlinker == [i \in 1..3 |-> [j \in 1..3 |-> j = 2]]

\* C15: on a 3 x 3 grid one update_grid takes the centre-only matrix to the
\* all-dead matrix, the middle row to the middle column and the middle column
\* back to the middle row; so a grid constructed as the middle row holds the
\* middle column or the middle row after every update_grid, and one
\* constructed centre-only is all dead after every update_grid.
C15_Blinker ==
    /\ [][ grid.rows = 3 /\ grid.cols = 3 =>
              /\ grid.grid = CentreOnly3 => grid'.grid = Dead3
              /\ grid.grid = HorizontalBlinker => grid'.grid = VerticalBlinker
              /\ grid.grid = VerticalBlinker => grid'.grid = HorizontalBlinker ]_vars
    /\ [](pc = "update_grid" /\ grid.rows = 3 /\ grid.cols = 3 =>
              /\ grid.saved = CentreOnly3 => grid.grid = Dead3
              /\ grid.saved = HorizontalBlinker =>
                    grid.grid \in {HorizontalBlinker, VerticalBlinker})

\* update_grid has brought a grid constructed as the middle row back to the
\* middle row
C15_Witness ==
    /\ pc = "update_grid"
    /\ grid.rows = 3 /\ grid.cols = 3
    /\ grid.saved = HorizontalBlinker
    /\ grid.grid = HorizontalBlinker


(***************************************************************************)
(* C16                                                                     *)
(***************************************************************************)
QuitKey(e) == e.code \in {"Esc", "q", "Q"} \/ (e.ctrl /\ e.code \in {"c", "C"})

\* C16: paused or not, the dispatch of Esc, q, Q or Ctrl+c leaves the loop at
\* once with Ok and the Grid as it was; what follows is the drop of the Grid,
\* which invokes restore_terminal and changes no cell, and nothing after it:
\* neither update_grid nor draw is reached again.  A quit key that has been
\* read always leads to that end, also while paused.
C16_Quit ==
    /\ [][ /\ pc = "handle_key_event" /\ QuitKey(event) =>
                pc' = "drop" /\ grid' = grid /\ result' = "Ok"
           /\ pc = "drop" =>
                pc' = "exited" /\ grid' = grid /\ restores' = restores + 1
           /\ pc # "exited" ]_vars
    /\ \A paused_now \in BOOLEAN :
          (pc = "handle_key_event" /\ QuitKey(event) /\ grid.paused = paused_now)
              ~> (pc = "exited" /\ result = "Ok" /\ grid.paused = paused_now)

\* main has returned Ok from a paused loop whose cells differ from the snapshot
C16_Witness ==
    /\ pc = "exited"
    /\ result = "Ok"
    /\ grid.paused
    /\ grid.grid # grid.saved
    /\ restores >= 1


(***************************************************************************)
(* C17                                                                     *)
(***************************************************************************)
\* the generation after matrix m of r rows and c columns
NextGeneration(m, r, c) ==
    [i \in 1..r |-> [j \in 1..c |->
        LET n == LiveAround(m, r, c, i, j)
        IN (m[i][j] /\ n \in {2, 3}) \/ (~m[i][j] /\ n = 3)]]

\* C17: in the loop a key event is dispatched before the pause test; a pause
\* test that finds the Grid running is followed by update_grid, which takes
\* the cells to their next generation, and update_grid by draw, which changes
\* nothing of the Grid and ends the iteration.  draw is reached from
\* update_grid only and update_grid from that pause test only: the two
\* alternate, update_grid first, and no matrix is drawn that was not stepped.
C17_StepThenDraw ==
    [][ /\ pc = "handle_key_event" => pc' \in {"paused", "drop"}
        /\ pc = "paused" /\ ~grid.paused => pc' = "update_grid" /\ grid' = grid
        /\ pc = "update_grid" =>
            /\ pc' = "draw"
            /\ grid' = [grid EXCEPT
                          !.grid = NextGeneration(grid.grid, grid.rows, grid.cols)]
        /\ pc = "draw" => pc' \in {"poll", "drop"} /\ grid' = grid
        /\ pc' = "draw" => pc = "update_grid"
        /\ pc' = "update_grid" => pc = "paused" /\ ~grid.paused
        /\ pc' = "poll" => pc \in {"prepare_terminal", "draw"} \/ (pc = "paused" /\ grid.paused)
      ]_vars

\* draw is about to show a generation that update_grid has just computed and
\* that differs from the snapshot
C17_Witness ==
    /\ pc = "draw"
    /\ term.alt
    /\ ~grid.paused
    /\ grid.rows * grid.cols = MaxTermCells
    /\ grid.grid # grid.saved

(***************************************************************************)
(* C18                                                                     *)
(***************************************************************************)
\* the load at start-up did not yield a Grid: from_file returned an error or
\* did not return
LoadReturnedErr == pc \in {"new", "unwrap_or"} /\ loaded = None /\ restores = 0

LoadPanicked == result = "panic: unwrap on None"

LoadNotOk == LoadReturnedErr \/ LoadPanicked

\* C18: whenever the load at start-up fails, the diagnostic has been printed
\* (and the delay has elapsed with it) before the fallback Grid is created and
\* before prepare_terminal; the diagnostic is printed at no other point, so
\* never once the terminal is in raw mode or on the alternate screen.
C18_DiagnosticBeforeFallback ==
    /\ [](LoadNotOk => LoadFailed)
    /\ [][ LoadFailed' /\ ~LoadFailed =>
              /\ pc = "from_file" /\ pc' = "new"
              /\ fallback = NoGrid /\ grid = NoGrid
              /\ ~term.raw /\ ~term.alt ]_vars
    /\ [](LoadFailed /\ (term.raw \/ term.alt) => pc \notin {"start", "from_file"})

(***************************************************************************)
(* C19                                                                     *)
(***************************************************************************)
\* C19: of the methods of a Grid only save_state changes self.saved;
\* save_to_file, also when it fails, and draw change nothing of the Grid;
\* update_grid, restart, save_state and load_state leave the pause flag as it
\* was.
C19_Frame ==
    [][ /\ pc' # "save_state" => grid'.saved = grid.saved
        /\ pc' \in {"save_to_file", "save_to_file failed", "draw"} => grid' = grid
        /\ pc' \in {"update_grid", "restart", "save_state", "load_state"} =>
              grid'.paused = grid.paused ]_vars

\* restart has returned on a paused Grid that holds a snapshot taken by
\* save_state: the snapshot is still the one taken, the cells are new
C19_Witness ==
    /\ pc = "restart"
    /\ everSaved
    /\ grid.paused
    /\ grid.saved = held
    /\ grid.grid # grid.saved
    /\ fs[LibPath].exists

(***************************************************************************)
(* C20                                                                     *)
(***************************************************************************)
\* C20: on every Grid either constructor produces and every Grid its methods
\* lead to, those of no row or no column included, update_grid calls
\* count_neighbors only with 0 <= x < rows and 0 <= y < cols on a Grid of at
\* least one row and one column; every such call subtracts 1 from operands
\* that are at least 1 and reads self.grid inside it; update_grid writes `new`
\* inside it; and draw subtracts 1 from self.rows only when it is at least 1.
C20_InRange ==
    /\ \A xy \in update_grid_cells(grid) :
        /\ grid.rows >= 1 /\ grid.cols >= 1
        /\ xy[1] \in 0..(grid.rows - 1)
        /\ xy[2] \in 0..(grid.cols - 1)
        /\ \A n \in neighbor_sub_operands(grid, xy[1], xy[2]) : n >= 1
        /\ \A ij \in neighbor_reads(grid, xy[1], xy[2]) :
            /\ ij[1] + 1 \in DOMAIN grid.grid
            /\ ij[2] + 1 \in DOMAIN grid.grid[ij[1] + 1]
    /\ \A n \in draw_sub_operands(grid) : n >= 1

\* update_grid has returned on a Grid of no row, built for a terminal of no
\* row
C20_Witness ==
    /\ pc = "update_grid"
    /\ grid.rows = 0
    /\ grid.cols = MaxCells
    /\ update_grid_cells(grid) = {}
    /\ draw_sub_operands(grid) = {}

====
